---- MODULE Spec2Model ----
(***************************************************************************)
(* A model of easy_hooks: one hook family built by generatePeriodicHook    *)
(* (src/src/hook_generators/generate_hook.ts), its per-key Subscribers     *)
(* (src/src/subscriber.ts), their SubscriberMiddlewares                    *)
(* (src/src/subscriber_middleware.ts) and the components that use them     *)
(* through useGeneric (src/src/use_generic.ts).                            *)
(*                                                                         *)
(* JavaScript runs one task at a time.  Every action below is one          *)
(* synchronous run of code: a render, an effect, an effect cleanup, a      *)
(* timer callback, the continuation of an await.  A method handed over as  *)
(* a callback (notifyObservers) is modelled as invoked on the instance it  *)
(* was taken from.                                                         *)
(***************************************************************************)
EXTENDS Integers, Sequences, FiniteSets, TLC

NULL == "null"

\* Bounds of the model.
MaxLoops == 2
MaxStops == 1
RetryCap == 4

\* The fetch keys (the `parameters` strings) and the component ids (useId).
Keys == {"A", "B"}
Components == {"c1", "c2", "c3"}

\* The two middleware classes of generateHook: HookMiddleware (useHook) and
\* one NewSubscriberMiddleware made by stateCompresser.
Middlewares == {"HookMiddleware", "NewSubscriberMiddleware"}

NullCache == [data |-> NULL, errorData |-> NULL]

\* What the user's fetchData hands to notifyObservers.
Upstream ==
  { [data |-> "d1", errorData |-> NULL],
    [data |-> "d2", errorData |-> NULL] }

\* The options object of generatePeriodicHook, with its interval.
\* maximumRetryCount -1, display NULL, delayStopFetching -1 stand for an
\* option that is not set; errorInterval is tagged by its JavaScript type.
OptionSets ==
  { [interval |-> 3, shouldRetryOnError |-> TRUE,
     errorInterval |-> [kind |-> "unset", num |-> 0, arr |-> <<>>],
     maximumRetryCount |-> -1, display |-> NULL, delayStopFetching |-> -1],
    [interval |-> 3, shouldRetryOnError |-> TRUE,
     errorInterval |-> [kind |-> "array", num |-> 0, arr |-> <<1, 2, 5>>],
     maximumRetryCount |-> -1, display |-> NULL, delayStopFetching |-> -1],
    [interval |-> 3, shouldRetryOnError |-> TRUE,
     errorInterval |-> [kind |-> "number", num |-> 4, arr |-> <<>>],
     maximumRetryCount |-> 2, display |-> "eMax", delayStopFetching |-> -1],
    [interval |-> 3, shouldRetryOnError |-> TRUE,
     errorInterval |-> [kind |-> "unset", num |-> 0, arr |-> <<>>],
     maximumRetryCount |-> 2, display |-> NULL, delayStopFetching |-> -1],
    [interval |-> 3, shouldRetryOnError |-> TRUE,
     errorInterval |-> [kind |-> "unset", num |-> 0, arr |-> <<>>],
     maximumRetryCount |-> -1, display |-> NULL, delayStopFetching |-> 100],
    [interval |-> 3, shouldRetryOnError |-> FALSE,
     errorInterval |-> [kind |-> "unset", num |-> 0, arr |-> <<>>],
     maximumRetryCount |-> -1, display |-> NULL, delayStopFetching |-> -1],
    [interval |-> 3, shouldRetryOnError |-> TRUE,
     errorInterval |-> [kind |-> "array", num |-> 0, arr |-> <<>>],
     maximumRetryCount |-> -1, display |-> NULL, delayStopFetching |-> -1] }

VARIABLES
  options,          \* the options of the hook family (fixed at generation)
  subscriberPool,   \* generateHook: subscriberPool[parameters] is defined
  subscriber,       \* per key: the Subscriber's fields
  middleware,       \* per key and class: the SubscriberMiddleware's fields
  component,        \* per component: useGeneric's hook state
  timeoutPid,       \* generatePeriodicHook: let timeoutPid is not null
  retryCount,       \* generatePeriodicHook: let retryCount
  timers,           \* window.setTimeout: the pending timeoutWrapper timers
  inflight,         \* per key: timeoutWrapper calls awaiting the user's fetchData
  stopPending,      \* per key: Subscriber.unsubscribe calls awaiting stopFetching
  expiryTimers,     \* per key: pending setTimeout callbacks of Subscriber.unsubscribe
  faulty,           \* the user's callbacks that throw: observers (by component) and transforms
  ev,               \* observation: what the last step did
  lastNotified,     \* observation: per key, the last (data, errorData) notified upstream
  streak,           \* observation: per key, the fetches that failed in a row
  window,           \* observation: per key, the retention time since the last stop
  halted            \* observation: per key, a fetch failed without retry since the last start

vars == <<options, subscriberPool, subscriber, middleware, component, timeoutPid,
          retryCount, timers, inflight, stopPending, expiryTimers, faulty, ev,
          lastNotified, streak, window, halted>>

\* Timer ids matter only through timeoutPid, which holds the id of the timer set
\* last.  timers.pid is the key of the pending timer with that id (NULL when it
\* has fired or was cleared); timers.other counts, per key, the pending timers
\* with any other id.
NoTimers == [pid |-> NULL, other |-> [k \in Keys |-> 0]]

Range(s) == {s[i] : i \in 1..Len(s)}
Remove(s, x) == SelectSeq(s, LAMBDA y : y # x)
\* Mutant: a new key goes to the front of the map.
MapSet_front(s, x) == IF x \in Range(s) THEN s ELSE <<x>> \o s

\* Map.set keeps the position of a key that is already in the map.
MapSet(s, x) == IF x \in Range(s) THEN s ELSE Append(s, x)

InitialSubscriber ==
  [currentDataCache |-> NullCache, cacheEpired |-> FALSE,
   subscriberMiddlewares |-> {}, activeSubscriberMiddleware |-> <<>>]

InitialMiddleware ==
  [currentDataCache |-> NullCache, cacheEpired |-> TRUE, observerFunctionMap |-> <<>>]

InitialComponent ==
  [phase |-> "idle", parameter |-> "A", NotifierClass |-> "HookMiddleware",
   currentNotifier |-> FALSE, state |-> NullCache]

NoEvent ==
  [op |-> "init", key |-> NULL, c |-> NULL, had |-> FALSE, fetch |-> FALSE,
   stop |-> FALSE, notified |-> <<>>, runs |-> <<>>, calls |-> <<>>, sched |-> <<>>,
   cleared |-> FALSE, raised |-> FALSE]

\* The state a step works on, with what the step has done so far.
World ==
  [pool |-> subscriberPool, sub |-> subscriber, mw |-> middleware, comp |-> component,
   pid |-> timeoutPid, retry |-> retryCount, timers |-> timers, inflight |-> inflight,
   stops |-> stopPending, expiry |-> expiryTimers,
   fetch |-> FALSE, stop |-> FALSE, notified |-> <<>>, runs |-> <<>>, calls |-> <<>>,
   sched |-> <<>>, cleared |-> FALSE, thrown |-> FALSE]

----------------------------------------------------------------------------
\* The user's compressor of the NewSubscriberMiddleware: a projection of the data.
Compress(d) ==
  CASE d = "d1" -> "z1"
    [] d = "d2" -> "z2"
    [] OTHER -> NULL

\* The notifyObservers calls a middleware class makes for a raw (data, errorData):
\* HookMiddleware passes it on; the compressor has nothing to say about (null, null).
Compressor(t, v) ==
  IF t = "HookMiddleware" THEN <<v>>
  ELSE IF v = NullCache THEN <<>>
  ELSE <<[data |-> Compress(v.data), errorData |-> v.errorData]>>

\* SubscriberMiddleware.notifyObservers: the loop over the observer functions
\* ends at the first one that throws.
Middleware_notifyObservers(w, k, t, v, instanceInitialized) ==
  LET obs == w.mw[k][t].observerFunctionMap
      w1 == [w EXCEPT !.mw[k][t].currentDataCache = v, !.mw[k][t].cacheEpired = FALSE]
      throwers == {i \in 1..Len(obs) : obs[i] \in faulty}
      last == IF throwers = {} THEN Len(obs)
              ELSE CHOOSE i \in throwers : \A j \in throwers : i <= j
      returned == {obs[i] : i \in (1..last) \ throwers}
  IN  IF instanceInitialized
      THEN [w1 EXCEPT
             !.comp = [c \in Components |->
                        IF c \in returned /\ w.comp[c].phase = "mounted"
                        THEN [w.comp[c] EXCEPT !.state = v]
                        ELSE w.comp[c]],
             !.calls = w.calls \o [i \in 1..last |-> [c |-> obs[i], v |-> v]],
             !.thrown = throwers # {}]
      ELSE w1

\* observerFunctionMiddleware of generateHook's middleware classes; a compressor
\* that throws does so before it notifies.
observerFunctionMiddleware(w, k, t, v, instanceInitialized) ==
  LET out == Compressor(t, v)
      w1 == [w EXCEPT !.runs = Append(@, [t |-> t, v |-> v])]
  IN  IF t \in faulty THEN [w1 EXCEPT !.thrown = TRUE]
      ELSE IF out = <<>> THEN w1
      ELSE Middleware_notifyObservers(w1, k, t, out[1], instanceInitialized)

\* try { ... } catch (error) { console.error(error) } around a middleware call; an
\* async observerFunctionMiddleware keeps the error in the promise it returns.
Caught(w) == [w EXCEPT !.thrown = FALSE]

RECURSIVE FanOut(_, _, _, _)
FanOut(w, k, v, active) ==
  IF active = <<>> THEN w
  ELSE FanOut(Caught(observerFunctionMiddleware(w, k, Head(active), v, TRUE)),
              k, v, Tail(active))

\* Mutant: every registered middleware is notified, active or not.
Subscriber_notifyObservers_registered(w, k, v) ==
  FanOut([w EXCEPT !.sub[k].cacheEpired = FALSE, !.notified = Append(@, v)], k, v,
         SelectSeq(<<"HookMiddleware", "NewSubscriberMiddleware">>,
                   LAMBDA t : t \in w.sub[k].subscriberMiddlewares))

\* Mutant: an error of a middleware call ends the loop over the active middlewares.
RECURSIVE FanOutUncaught(_, _, _, _)
FanOutUncaught(w, k, v, active) ==
  IF active = <<>> \/ w.thrown THEN w
  ELSE FanOutUncaught(observerFunctionMiddleware(w, k, Head(active), v, TRUE),
                      k, v, Tail(active))

Subscriber_notifyObservers_uncaught(w, k, v) ==
  FanOutUncaught([w EXCEPT !.sub[k].cacheEpired = FALSE, !.notified = Append(@, v)],
                 k, v, w.sub[k].activeSubscriberMiddleware)

\* Mutant: only the first active middleware is notified.
Subscriber_notifyObservers_first(w, k, v) ==
  FanOut([w EXCEPT !.sub[k].cacheEpired = FALSE, !.notified = Append(@, v)], k, v,
         SubSeq(w.sub[k].activeSubscriberMiddleware, 1, 1))

\* Subscriber.notifyObservers
Subscriber_notifyObservers(w, k, v) ==
  FanOut([w EXCEPT !.sub[k].cacheEpired = FALSE, !.notified = Append(@, v)], k, v,
         w.sub[k].activeSubscriberMiddleware)

\* Mutant: only the raw cache is reset.
expireCache_raw(w, k) ==
  [w EXCEPT !.sub[k].currentDataCache = NullCache, !.cleared = TRUE]

\* Subscriber.expireCache
expireCache(w, k) ==
  [w EXCEPT !.sub[k].currentDataCache = NullCache,
            !.mw[k] = [t \in Middlewares |->
                        IF t \in w.sub[k].subscriberMiddlewares
                        THEN [w.mw[k][t] EXCEPT !.currentDataCache = NullCache]
                        ELSE w.mw[k][t]],
            !.cleared = TRUE]

\* Mutant: the new instance is put in the active set.
NewMiddleware_active(w, k, t) ==
  Caught(observerFunctionMiddleware(
           [w EXCEPT !.mw[k][t] = InitialMiddleware,
                     !.sub[k].activeSubscriberMiddleware = MapSet(@, t)],
           k, t, w.sub[k].currentDataCache, FALSE))

\* new SubscriberMiddleware(subscriber)
NewMiddleware(w, k, t) ==
  Caught(observerFunctionMiddleware([w EXCEPT !.mw[k][t] = InitialMiddleware],
                                    k, t, w.sub[k].currentDataCache, FALSE))

\* Mutant: a class that is registered already gets a new instance.
registerMiddleware_again(w, k, t) ==
  NewMiddleware([w EXCEPT !.sub[k].subscriberMiddlewares = @ \cup {t}], k, t)

\* Subscriber.registerMiddleware
registerMiddleware(w, k, t) ==
  IF t \in w.sub[k].subscriberMiddlewares THEN w
  ELSE NewMiddleware([w EXCEPT !.sub[k].subscriberMiddlewares = @ \cup {t}], k, t)

\* timeoutWrapper up to its await: the user's fetchData is running.
timeoutWrapper(w, k) ==
  [w EXCEPT !.inflight[k] = @ + 1]

\* window.setTimeout(() => timeoutWrapper(parameters, notifyObservers), delay)
setTimeout(w, k, delay) ==
  LET old == w.timers.pid
      other == IF old = NULL THEN w.timers.other
               ELSE [w.timers.other EXCEPT ![old] = @ + 1]
  IN  [w EXCEPT !.timers = [pid |-> k, other |-> other], !.pid = TRUE,
                !.sched = Append(w.sched, delay)]

\* Mutant: the stop resets the retry counter.
stopFetching_reset(w, k) ==
  IF w.pid THEN [w EXCEPT !.timers.pid = NULL, !.retry = 0] ELSE [w EXCEPT !.retry = 0]

\* stopFetching of generatePeriodicHook
stopFetching(w, k) ==
  IF w.pid THEN [w EXCEPT !.timers.pid = NULL] ELSE w

\* Mutant: a middleware that joins is replayed the cache whatever its cacheEpired.
Subscriber_subscribe_replay(w, k, t) ==
  LET w1 == [w EXCEPT !.sub[k].activeSubscriberMiddleware = MapSet(@, t)]
  IN  IF Len(w1.sub[k].activeSubscriberMiddleware) = 1
      THEN timeoutWrapper([w1 EXCEPT !.fetch = TRUE], k)
      ELSE Caught(observerFunctionMiddleware(w1, k, t, w1.sub[k].currentDataCache, TRUE))

\* Mutant: every middleware that becomes active, not only the first one, starts
\* a fetch.
Subscriber_subscribe_every(w, k, t) ==
  LET w1 == [w EXCEPT !.sub[k].activeSubscriberMiddleware = MapSet(@, t)]
  IN  timeoutWrapper([w1 EXCEPT !.fetch = TRUE], k)

\* Subscriber.subscribe up to its await
Subscriber_subscribe(w, k, t) ==
  LET w1 == [w EXCEPT !.sub[k].activeSubscriberMiddleware = MapSet(@, t)]
  IN  IF Len(w1.sub[k].activeSubscriberMiddleware) = 1
      THEN timeoutWrapper([w1 EXCEPT !.fetch = TRUE], k)
      ELSE IF w1.mw[k][t].cacheEpired
           THEN Caught(observerFunctionMiddleware(w1, k, t,
                                                  w1.sub[k].currentDataCache, TRUE))
           ELSE w1

\* Mutant: a middleware is taken off the active set only when it is the last one.
Subscriber_unsubscribe_last(w, k, t) ==
  IF Len(w.sub[k].activeSubscriberMiddleware) = 1
  THEN [stopFetching([w EXCEPT !.sub[k].activeSubscriberMiddleware = Remove(@, t)], k)
          EXCEPT !.stops[k] = @ + 1, !.stop = TRUE]
  ELSE w

\* Subscriber.unsubscribe up to its await
Subscriber_unsubscribe(w, k, t) ==
  LET w1 == [w EXCEPT !.sub[k].activeSubscriberMiddleware = Remove(@, t)]
  IN  IF Len(w1.sub[k].activeSubscriberMiddleware) = 0
      THEN [stopFetching(w1, k) EXCEPT !.stops[k] = @ + 1, !.stop = TRUE]
      ELSE w1

\* Mutant: every observer, not only the first one, subscribes the middleware.
Middleware_subscribe_always(w, k, t, c) ==
  Subscriber_subscribe([w EXCEPT !.mw[k][t].observerFunctionMap = MapSet(@, c)], k, t)

\* SubscriberMiddleware.subscribe
Middleware_subscribe(w, k, t, c) ==
  LET w1 == [w EXCEPT !.mw[k][t].observerFunctionMap = MapSet(@, c)]
  IN  IF Len(w1.mw[k][t].observerFunctionMap) = 1
      THEN Subscriber_subscribe(w1, k, t)
      ELSE w1

\* Mutant: the observer function stays in the map.
Middleware_unsubscribe_keep(w, k, t, c) ==
  LET w1 == [w EXCEPT !.mw[k][t].cacheEpired = TRUE]
  IN  IF Len(w1.mw[k][t].observerFunctionMap) = 0
      THEN Subscriber_unsubscribe(w1, k, t)
      ELSE w1

\* Mutant: every observer that leaves, not only the last one, unsubscribes the middleware.
Middleware_unsubscribe_always(w, k, t, c) ==
  Subscriber_unsubscribe([w EXCEPT !.mw[k][t].observerFunctionMap = Remove(@, c),
                                   !.mw[k][t].cacheEpired = TRUE], k, t)

\* Mutant: a detach resets the compressed cache of the middleware.
Middleware_unsubscribe_clear(w, k, t, c) ==
  LET w1 == [w EXCEPT !.mw[k][t].observerFunctionMap = Remove(@, c),
                      !.mw[k][t].cacheEpired = TRUE,
                      !.mw[k][t].currentDataCache = NullCache]
  IN  IF Len(w1.mw[k][t].observerFunctionMap) = 0
      THEN Subscriber_unsubscribe(w1, k, t)
      ELSE w1

\* SubscriberMiddleware.unsubscribe
Middleware_unsubscribe(w, k, t, c) ==
  LET w1 == [w EXCEPT !.mw[k][t].observerFunctionMap = Remove(@, c),
                      !.mw[k][t].cacheEpired = TRUE]
  IN  IF Len(w1.mw[k][t].observerFunctionMap) = 0
      THEN Subscriber_unsubscribe(w1, k, t)
      ELSE w1

----------------------------------------------------------------------------
Loops(w) ==
  (IF w.timers.pid = NULL THEN 0 ELSE 1)
  + w.timers.other["A"] + w.timers.other["B"] + w.inflight["A"] + w.inflight["B"]

\* No continuation of an await is queued: stopFetching has no await of its own,
\* so Subscriber.unsubscribe resumes before any timer or network callback runs.
NoMicrotask == \A k \in Keys : stopPending[k] = 0

\* The step's result becomes the next state; the observation variables follow it.
Commit(w, op, k, c, had) ==
  /\ subscriberPool' = w.pool
  /\ subscriber' = w.sub
  /\ middleware' = w.mw
  /\ component' = w.comp
  /\ timeoutPid' = w.pid
  /\ retryCount' = w.retry
  /\ timers' = w.timers
  /\ inflight' = w.inflight
  /\ stopPending' = w.stops
  /\ expiryTimers' = w.expiry
  /\ ev' = [op |-> op, key |-> k, c |-> c, had |-> had, fetch |-> w.fetch,
            stop |-> w.stop, notified |-> w.notified, runs |-> w.runs,
            calls |-> w.calls, sched |-> w.sched, cleared |-> w.cleared,
            raised |-> w.thrown]
  /\ lastNotified' = IF w.notified # <<>>
                     THEN [lastNotified EXCEPT ![k] = w.notified[Len(w.notified)]]
                     ELSE IF w.cleared THEN [lastNotified EXCEPT ![k] = NullCache]
                     ELSE lastNotified
  /\ streak' = CASE op = "fetchFail" -> [streak EXCEPT ![k] = @ + 1]
                 [] op = "fetchOk" -> [streak EXCEPT ![k] = 0]
                 [] OTHER -> streak
  /\ window' = IF w.stop /\ options.delayStopFetching # -1
               THEN [window EXCEPT ![k] = "open"]
               ELSE window
  /\ halted' = IF w.fetch THEN [halted EXCEPT ![k] = FALSE]
               ELSE IF op = "fetchFail" /\ ~options.shouldRetryOnError
                    THEN [halted EXCEPT ![k] = TRUE]
                    ELSE halted
  /\ UNCHANGED <<options, faulty>>

\* useGeneric, the render: a component starts to use the hook of class t with key k.
Render(c, k, t) ==
  /\ component[c].phase = "idle"
  /\ LET w0 == [World EXCEPT !.comp[c] = [phase |-> "rendered", parameter |-> k,
                                          NotifierClass |-> t, currentNotifier |-> FALSE,
                                          state |-> NullCache]]
         w1 == IF w0.pool[k] THEN registerMiddleware(w0, k, t) ELSE w0
     IN  Commit(w1, "render", k, c, FALSE)

\* useGeneric, the effect
Mount(c) ==
  /\ component[c].phase = "rendered"
  /\ LET k == component[c].parameter
         t == component[c].NotifierClass
         w0 == [World EXCEPT !.comp[c].phase = "mounted"]
         w1 == IF w0.pool[k] THEN w0
               ELSE registerMiddleware([w0 EXCEPT !.pool[k] = TRUE], k, t)
         found == t \in w1.sub[k].subscriberMiddlewares
         w2 == [w1 EXCEPT !.comp[c].currentNotifier = found]
         w3 == IF found /\ c \notin Range(w2.mw[k][t].observerFunctionMap)
               THEN Middleware_subscribe(w2, k, t, c)
               ELSE w2
     IN  /\ Loops(w3) <= MaxLoops
         /\ Commit(w3, "mount", k, c, c \in Range(middleware[k][t].observerFunctionMap))

\* useGeneric, the effect's cleanup
Unmount(c) ==
  /\ component[c].phase = "mounted"
  /\ LET k == component[c].parameter
         t == component[c].NotifierClass
         w1 == IF component[c].currentNotifier
               THEN Middleware_unsubscribe(World, k, t, c)
               ELSE World
         w2 == [w1 EXCEPT !.comp[c] = InitialComponent]
     IN  /\ w2.stops[k] + w2.expiry[k] <= MaxStops
         /\ Commit(w2, "unmount", k, c, c \in Range(middleware[k][t].observerFunctionMap))

\* SubscriberMiddleware.subscribe called for a component id that is in the
\* observer map already (useGeneric itself checks observerFunctionMap.has first).
Resubscribe(c) ==
  /\ component[c].phase = "mounted"
  /\ LET k == component[c].parameter
         t == component[c].NotifierClass
         w1 == Middleware_subscribe(World, k, t, c)
     IN  /\ c \in Range(middleware[k][t].observerFunctionMap)
         /\ Loops(w1) <= MaxLoops
         /\ Commit(w1, "resubscribe", k, c, TRUE)

\* SubscriberMiddleware.unsubscribe called for a component id that is not in the
\* observer map of the middleware.
StrayUnsubscribe(c, k, t) ==
  /\ subscriberPool[k]
  /\ t \in subscriber[k].subscriberMiddlewares
  /\ c \notin Range(middleware[k][t].observerFunctionMap)
  /\ LET w1 == Middleware_unsubscribe(World, k, t, c)
     IN  /\ w1.stops[k] + w1.expiry[k] <= MaxStops
         /\ Commit(w1, "strayUnsubscribe", k, c, FALSE)

\* Subscriber.unsubscribe after its await
StopDone(k) ==
  /\ stopPending[k] > 0
  /\ LET w0 == [World EXCEPT !.stops[k] = @ - 1]
         w1 == IF options.delayStopFetching # -1
               THEN expireCache(w0, k)
               ELSE [w0 EXCEPT !.sub[k].cacheEpired = TRUE, !.expiry[k] = @ + 1]
     IN  Commit(w1, "stopDone", k, NULL, FALSE)

\* Mutant: the timer resets the caches whatever cacheEpired.
ExpiryFire_unguarded(k) ==
  /\ NoMicrotask
  /\ expiryTimers[k] > 0
  /\ Commit(expireCache([World EXCEPT !.expiry[k] = @ - 1], k),
            "expiryFire", k, NULL, FALSE)

\* The setTimeout callback of Subscriber.unsubscribe
ExpiryFire(k) ==
  /\ NoMicrotask
  /\ expiryTimers[k] > 0
  /\ LET w0 == [World EXCEPT !.expiry[k] = @ - 1]
         w1 == IF w0.sub[k].cacheEpired THEN expireCache(w0, k) ELSE w0
     IN  Commit(w1, "expiryFire", k, NULL, FALSE)

\* The user's fetchData calls notifyObservers(data, errorData) while it runs.
Notify(k, v) ==
  /\ NoMicrotask
  /\ inflight[k] > 0
  /\ Commit(Subscriber_notifyObservers(World, k, v), "notify", k, NULL, FALSE)

\* timeoutWrapper after its await, the user's fetchData having returned
FetchSucceed(k) ==
  /\ NoMicrotask
  /\ inflight[k] > 0
  /\ LET w0 == [World EXCEPT !.inflight[k] = @ - 1, !.retry = 0]
     IN  Commit(setTimeout(w0, k, options.interval), "fetchOk", k, NULL, FALSE)

\* Mutant: errorInterval is the base interval whatever the option.
trueInterval_base(n) ==
  LET errorIntervalArray == IF options.errorInterval.kind = "array"
                            THEN options.errorInterval.arr ELSE <<>>
  IN  IF n - 1 < Len(errorIntervalArray) THEN errorIntervalArray[n] ELSE options.interval

\* const trueInterval = errorIntervalArray[retryCount - 1] ?? errorInterval
trueInterval(n) ==
  LET errorInterval == IF options.errorInterval.kind = "number"
                       THEN options.errorInterval.num ELSE options.interval
      errorIntervalArray == IF options.errorInterval.kind = "array"
                            THEN options.errorInterval.arr ELSE <<>>
  IN  IF n - 1 < Len(errorIntervalArray) THEN errorIntervalArray[n] ELSE errorInterval

\* Mutant: the maximum is compared with > instead of >=.
OnError_late(w, k) ==
  IF options.shouldRetryOnError
  THEN LET w1 == [w EXCEPT !.retry = @ + 1]
       IN  IF options.maximumRetryCount # -1 /\ w1.retry > options.maximumRetryCount
           THEN IF options.display # NULL
                THEN Subscriber_notifyObservers(w1, k,
                       [data |-> NULL, errorData |-> options.display])
                ELSE w1
           ELSE setTimeout(w1, k, trueInterval(w1.retry))
  ELSE w

\* Mutant: the loop gives up one failure before the maximum is reached.
OnError_early(w, k) ==
  IF options.shouldRetryOnError
  THEN LET w1 == [w EXCEPT !.retry = @ + 1]
       IN  IF options.maximumRetryCount # -1 /\ w1.retry + 1 >= options.maximumRetryCount
           THEN IF options.display # NULL
                THEN Subscriber_notifyObservers(w1, k,
                       [data |-> NULL, errorData |-> options.display])
                ELSE w1
           ELSE setTimeout(w1, k, trueInterval(w1.retry))
  ELSE w

\* timeoutWrapper's catch block
OnError(w, k) ==
  IF options.shouldRetryOnError
  THEN LET w1 == [w EXCEPT !.retry = @ + 1]
       IN  IF options.maximumRetryCount # -1 /\ w1.retry >= options.maximumRetryCount
           THEN IF options.display # NULL
                THEN Subscriber_notifyObservers(w1, k,
                       [data |-> NULL, errorData |-> options.display])
                ELSE w1
           ELSE setTimeout(w1, k, trueInterval(w1.retry))
  ELSE w

\* timeoutWrapper after its await, the user's fetchData having thrown
FetchFail(k) ==
  /\ NoMicrotask
  /\ inflight[k] > 0
  /\ retryCount < RetryCap
  /\ streak[k] < RetryCap
  /\ Commit(OnError([World EXCEPT !.inflight[k] = @ - 1], k), "fetchFail", k, NULL, FALSE)

\* A timer set by timeoutWrapper fires: the one timeoutPid names, or another one.
TimerFire(k) ==
  /\ NoMicrotask
  /\ \/ /\ timers.pid = k
        /\ Commit(timeoutWrapper([World EXCEPT !.timers.pid = NULL], k),
                  "timerFire", k, NULL, FALSE)
     \/ /\ timers.other[k] > 0
        /\ Commit(timeoutWrapper([World EXCEPT !.timers.other[k] = @ - 1], k),
                  "timerFire", k, NULL, FALSE)

\* The retention time (delayStopFetching) since the last stop of key k runs out.
TTLElapse(k) ==
  /\ NoMicrotask
  /\ window[k] = "open"
  /\ window' = [window EXCEPT ![k] = "elapsed"]
  /\ ev' = [NoEvent EXCEPT !.op = "ttlElapse", !.key = k]
  /\ UNCHANGED <<options, subscriberPool, subscriber, middleware, component, timeoutPid,
                 retryCount, timers, inflight, stopPending, expiryTimers, faulty,
                 lastNotified, streak, halted>>

\* Mutant: the error of fetchData is not caught.
Subscriber_fetchRejected_uncaught(w, k) ==
  [w EXCEPT !.inflight[k] = @ - 1, !.thrown = TRUE]

\* Subscriber.subscribe after its await, fetchData having rejected: the catch
\* block logs the error.
Subscriber_fetchRejected(w, k) ==
  Caught([w EXCEPT !.inflight[k] = @ - 1, !.thrown = TRUE])

\* Mutant: the error of stopFetching is not caught.
Subscriber_stopRejected_uncaught(w, k) ==
  [w EXCEPT !.stops[k] = @ - 1, !.thrown = TRUE]

\* Mutant: a stop that rejected marks the cache expired and sets the expiry timer.
Subscriber_stopRejected_expire(w, k) ==
  Caught([w EXCEPT !.stops[k] = @ - 1, !.thrown = TRUE,
                   !.sub[k].cacheEpired = TRUE, !.expiry[k] = @ + 1])

\* Subscriber.unsubscribe after its await, stopFetching having rejected: the catch
\* block logs the error, the cache is not reset.
Subscriber_stopRejected(w, k) ==
  Caught([w EXCEPT !.stops[k] = @ - 1, !.thrown = TRUE])

\* A hook made by generateHook itself: the user's fetchData returns.
FetchReturn(k) ==
  /\ inflight[k] > 0
  /\ Commit([World EXCEPT !.inflight[k] = @ - 1], "fetchReturn", k, NULL, FALSE)

\* A hook made by generateHook itself: the user's fetchData rejects.
FetchReject(k) ==
  /\ inflight[k] > 0
  /\ Commit(Subscriber_fetchRejected(World, k), "fetchReject", k, NULL, FALSE)

\* A hook made by generateHook itself: the user's stopFetching rejects.
StopFail(k) ==
  /\ stopPending[k] > 0
  /\ Commit(Subscriber_stopRejected(World, k), "stopFail", k, NULL, FALSE)

\* The state after generatePeriodicHook(fetchData, interval, options), options in
\* Os, the user's callbacks that throw being one of the sets Fs.
Start(Os, Fs) ==
  /\ options \in Os
  /\ faulty \in Fs
  /\ subscriberPool = [k \in Keys |-> FALSE]
  /\ subscriber = [k \in Keys |-> InitialSubscriber]
  /\ middleware = [k \in Keys |-> [t \in Middlewares |-> InitialMiddleware]]
  /\ component = [c \in Components |-> InitialComponent]
  /\ timeoutPid = FALSE
  /\ retryCount = 0
  /\ timers = NoTimers
  /\ inflight = [k \in Keys |-> 0]
  /\ stopPending = [k \in Keys |-> 0]
  /\ expiryTimers = [k \in Keys |-> 0]
  /\ ev = NoEvent
  /\ lastNotified = [k \in Keys |-> NullCache]
  /\ streak = [k \in Keys |-> 0]
  /\ window = [k \in Keys |-> "none"]
  /\ halted = [k \in Keys |-> FALSE]

\* No callback of the user throws.
InitWith(Os) == Start(Os, {{}})

\* The components Cs use the hooks of the classes Ts with keys of Ks.
Lifecycle(Cs, Ks, Ts) ==
  \/ \E c \in Cs, k \in Ks, t \in Ts : Render(c, k, t)
  \/ \E c \in Cs : Mount(c)
  \/ \E c \in Cs : Unmount(c)

\* The polling loop and the continuations, the user's fetchData returning normally.
Polling ==
  \/ \E k \in Keys : StopDone(k)
  \/ \E k \in Keys : ExpiryFire(k)
  \/ \E k \in Keys : FetchSucceed(k)
  \/ \E k \in Keys : TimerFire(k)

Notifying(Vs) == \E k \in Keys, v \in Vs : Notify(k, v)

Failing == \E k \in Keys : FetchFail(k)

DefaultOptions ==
  {o \in OptionSets : /\ o.shouldRetryOnError
                      /\ o.errorInterval.kind = "unset"
                      /\ o.maximumRetryCount = -1
                      /\ o.delayStopFetching = -1}

RetentionOptions == {o \in OptionSets : o.delayStopFetching # -1}

FirstValue == {[data |-> "d1", errorData |-> NULL]}

\* Two components on one key, fetches that succeed.
Init == InitWith(DefaultOptions)
Next ==
  \/ Lifecycle({"c1", "c2"}, {"A"}, Middlewares)
  \/ Polling
  \/ Notifying(Upstream)
Spec == Init /\ [][Next]_vars

\* Three components on one key, two of them with useHook and one with a
\* compressed hook, fetches that succeed.
NextRefcount ==
  \/ Lifecycle({"c1", "c2"}, {"A"}, {"HookMiddleware"})
  \/ Lifecycle({"c3"}, {"A"}, {"NewSubscriberMiddleware"})
  \/ Polling
  \/ Notifying(FirstValue)
SpecRefcount == Init /\ [][NextRefcount]_vars

\* One component on one key, every option set, fetches that succeed or fail.
InitPeriodic == InitWith({o \in OptionSets : o.delayStopFetching = -1})
NextPeriodic ==
  \/ Lifecycle({"c1"}, {"A"}, Middlewares)
  \/ Polling
  \/ Notifying(FirstValue)
  \/ Failing
SpecPeriodic == InitPeriodic /\ [][NextPeriodic]_vars

\* Two components on one key, with and without a retention time, fetches that
\* succeed.
InitRetention == InitWith(RetentionOptions \cup DefaultOptions)
NextRetention ==
  \/ Lifecycle({"c1", "c2"}, {"A"}, Middlewares)
  \/ Polling
  \/ Notifying(FirstValue)
  \/ \E k \in Keys : TTLElapse(k)
SpecRetention == InitRetention /\ [][NextRetention]_vars

\* Two components with useHook on two keys, fetches that succeed.
NextKeys ==
  \/ Lifecycle({"c1", "c2"}, Keys, {"HookMiddleware"})
  \/ Polling
  \/ Notifying(FirstValue)
SpecKeys == Init /\ [][NextKeys]_vars

\* Three components on one key, two of them with useHook and one with a
\* compressed hook; the observer function of c1 throws, or the compressor does.
InitFaults == Start(DefaultOptions, {{"c1"}, {"NewSubscriberMiddleware"}})
SpecFaults == InitFaults /\ [][NextRefcount]_vars

\* Two components on one key of a hook made by generateHook itself, whose
\* fetchData and stopFetching return or reject; of the options only the
\* retention time (cacheTTLInMilliseconds) matters.
NextGeneric ==
  \/ Lifecycle({"c1", "c2"}, {"A"}, Middlewares)
  \/ \E k \in Keys : StopDone(k)
  \/ \E k \in Keys : StopFail(k)
  \/ \E k \in Keys : ExpiryFire(k)
  \/ \E k \in Keys : FetchReturn(k)
  \/ \E k \in Keys : FetchReject(k)
  \/ Notifying(FirstValue)
SpecGeneric == Init /\ [][NextGeneric]_vars

\* Two components with useHook on one key, and calls of the middleware's
\* subscribe and unsubscribe for ids that are, or are not, registered already.
NextApi ==
  \/ Lifecycle({"c1", "c2"}, {"A"}, {"HookMiddleware"})
  \/ Polling
  \/ Notifying(FirstValue)
  \/ \E c \in {"c1", "c2"} : Resubscribe(c)
  \/ \E c \in {"c1", "c2"} : StrayUnsubscribe(c, "A", "HookMiddleware")
SpecApi == Init /\ [][NextApi]_vars

\* Two components on one key that stay attached, every option set without a
\* retention time, every fetch failing.
NextExhaust ==
  \/ \E c \in {"c1", "c2"}, t \in Middlewares : Render(c, "A", t)
  \/ \E c \in {"c1", "c2"} : Mount(c)
  \/ \E k \in Keys : TimerFire(k)
  \/ Failing
SpecExhaust == InitPeriodic /\ [][NextExhaust]_vars

----------------------------------------------------------------------------
\* The components registered as observers of key k, over all its middlewares.
Observers(k) ==
  UNION {Range(middleware[k][t].observerFunctionMap) : t \in Middlewares}

\* The polling loops of key k: fetches in flight and pending timers.
KeyLoops(k) ==
  inflight[k] + timers.other[k] + (IF timers.pid = k THEN 1 ELSE 0)

\* C1 (SpecRefcount).  Dedup: the user's fetch function is invoked by an attach
\* and by nothing else, and an attach invokes it if and only if the component is
\* then the only observer of the key: of N components that attach to a key with
\* no detach in between, the first invokes it once and the later ones do not.
C1_Dedup ==
  /\ ev.fetch => ev.op = "mount"
  /\ (ev.op = "mount" /\ ev.c \in Observers(ev.key)) =>
       (ev.fetch <=> Cardinality(Observers(ev.key)) = 1)

\* A third component has attached to a key that two others observe, without a fetch.
C1_Witness ==
  /\ ev.op = "mount"
  /\ ~ev.fetch
  /\ Len(middleware[ev.key]["HookMiddleware"].observerFunctionMap) = 2
  /\ Cardinality(Observers(ev.key)) = 3

\* C2 (SpecRefcount).  Refcount: the stop function is invoked by a detach and by
\* nothing else, and the detach of an attached component invokes it if and only
\* if no observer of the key is left, on whatever middlewares the observers are.
C2_Refcount ==
  /\ ev.stop => ev.op = "unmount"
  /\ (ev.op = "unmount" /\ ev.had) => (ev.stop <=> Observers(ev.key) = {})

\* The first of three attached components has detached, without a stop.
C2_Witness ==
  /\ ev.op = "unmount"
  /\ ev.had
  /\ ~ev.stop
  /\ Cardinality(Observers(ev.key)) = 2

\* C3 (SpecPeriodic).  At most one acquisition process per key: the pending
\* reschedule timers plus the fetches in flight of a key never exceed one.
C3_OneAcquisition == \A k \in Keys : KeyLoops(k) <= 1

\* C4 (SpecPeriodic).  Once the last consumer of a key has detached, and until a
\* consumer attaches again, the user's fetch body is not invoked for the key: no
\* timer of the polling loop fires for a key without observers.
C4_NoFetchAfterLastDetach ==
  ev.op = "timerFire" => Observers(ev.key) # {}

\* C5 (Spec).  Late-join replay: a component that attaches to a key for which
\* upstream data was notified and which another component still observes has its
\* callback invoked, in the attach, with that data as shaped by its middleware,
\* and the attach does not invoke the fetch function.
C5_LateJoinReplay ==
  (/\ ev.op = "mount"
   /\ ev.c \in Observers(ev.key)
   /\ Cardinality(Observers(ev.key)) >= 2
   /\ lastNotified[ev.key] # NullCache)
  => /\ ~ev.fetch
     /\ \E i \in 1..Len(ev.calls) :
          ev.calls[i] = [c |-> ev.c,
                         v |-> Compressor(component[ev.c].NotifierClass,
                                          lastNotified[ev.key])[1]]

\* C6 (Spec).  Multi-view sharing: the fetch function is invoked only while one
\* middleware is active, so once for a key observed through two middlewares, and
\* every upstream notification reaches each observer of each middleware, once, as
\* that middleware's output for it.
C6_MultiView ==
  /\ ev.fetch => Len(subscriber[ev.key].activeSubscriberMiddleware) = 1
  /\ ev.notified # <<>> =>
       /\ Len(ev.calls) = Cardinality(Observers(ev.key))
       /\ \A t \in Middlewares :
            \A c \in Range(middleware[ev.key][t].observerFunctionMap) :
              LET out == Compressor(t, ev.notified[1])[1]
              IN  /\ \E i \in 1..Len(ev.calls) : ev.calls[i] = [c |-> c, v |-> out]
                  /\ component[c].state = out

\* An upstream notification has reached observers of both middlewares of a key.
C6_Witness ==
  /\ ev.op = "notify"
  /\ \A t \in Middlewares : middleware[ev.key][t].observerFunctionMap # <<>>
  /\ Len(ev.calls) = 2

\* C7 (SpecRetention).  Retention: while the retention time since the last detach
\* of a key has not run out, no cache of the key is cleared as long as the key has
\* no observer, and an attach to the key does not invoke the fetch function.
C7_Retention ==
  \A k \in Keys :
    window[k] = "open" =>
      /\ ~(ev.cleared /\ ev.key = k /\ Observers(k) = {})
      /\ ~(ev.op = "mount" /\ ev.key = k /\ ev.fetch)

\* C8 (SpecPeriodic).  Backoff: with a non-empty errorInterval array s and no
\* maximum retry count, the delay scheduled after the n-th failure in a row of a
\* key is s[min(n, len(s))].
C8_Backoff ==
  (/\ ev.op = "fetchFail"
   /\ options.errorInterval.kind = "array"
   /\ options.errorInterval.arr # <<>>
   /\ options.maximumRetryCount = -1)
  => LET s == options.errorInterval.arr
         n == streak[ev.key]
     IN  ev.sched = <<s[IF n < Len(s) THEN n ELSE Len(s)]>>

\* C9 (SpecKeys, where every fetch succeeds).  Polling does not stall: while a
\* key has an observer, its polling loop is alive, a fetch being in flight or a
\* timer pending, whatever happens on the other key.  Without a loop no fetch
\* follows the last completed one.
C9_PollingAlive ==
  \A k \in Keys : Observers(k) # {} => KeyLoops(k) >= 1

\* C10 (SpecPeriodic).  Retry exhaustion: a failure that takes the retry counter
\* to the maximum (or beyond) schedules no timer; it notifies (null, display)
\* upstream once, each observer getting it once, when display is set, and
\* notifies nothing and calls no observer when it is not.
C10_Exhaustion ==
  (/\ ev.op = "fetchFail"
   /\ options.shouldRetryOnError
   /\ options.maximumRetryCount # -1
   /\ retryCount >= options.maximumRetryCount)
  => /\ ev.sched = <<>>
     /\ IF options.display # NULL
        THEN /\ ev.notified = <<[data |-> NULL, errorData |-> options.display]>>
             /\ Len(ev.calls) = Cardinality(Observers(ev.key))
             /\ \A c \in Observers(ev.key) :
                  \E i \in 1..Len(ev.calls) :
                    ev.calls[i] = [c |-> c, v |-> [data |-> NULL,
                                                  errorData |-> options.display]]
        ELSE ev.notified = <<>> /\ ev.calls = <<>>

\* The failure that reaches the maximum has handed the display error to an observer.
C10_Witness ==
  /\ ev.op = "fetchFail"
  /\ retryCount = options.maximumRetryCount
  /\ options.display # NULL
  /\ ev.calls # <<>>

\* C11 (SpecPeriodic).  Without retry on error, a failed fetch schedules no timer,
\* notifies nothing, clears no cache and leaves the retry counter at zero, and
\* after it no timer starts a fetch for the key until an attach starts one.
C11_NoRetry ==
  /\ (ev.op = "fetchFail" /\ ~options.shouldRetryOnError) =>
       /\ ev.sched = <<>>
       /\ ev.notified = <<>>
       /\ ev.calls = <<>>
       /\ ~ev.cleared
       /\ retryCount = 0
  /\ ~(ev.op = "timerFire" /\ halted[ev.key])

\* C12 (SpecFaults).  Observer isolation: an upstream notification calls every
\* observer of every active middleware, also when an observer function throws,
\* and the error does not leave Subscriber.notifyObservers.
C12_ObserverIsolation ==
  ev.notified # <<>> =>
    /\ ~ev.raised
    /\ \A t \in Middlewares \ faulty :
         \A c \in Range(middleware[ev.key][t].observerFunctionMap) :
           \E i \in 1..Len(ev.calls) : ev.calls[i].c = c

\* C13 (SpecFaults).  Transform isolation: an upstream notification runs the
\* transform of every active middleware on the notified (data, errorData), also
\* when a transform throws, the observers of the other middlewares are called,
\* and the error does not leave Subscriber.notifyObservers.
C13_TransformIsolation ==
  ev.notified # <<>> =>
    /\ ~ev.raised
    /\ \A t \in Range(subscriber[ev.key].activeSubscriberMiddleware) :
         /\ \E i \in 1..Len(ev.runs) : ev.runs[i] = [t |-> t, v |-> ev.notified[1]]
         /\ t \notin faulty =>
              \E i \in 1..Len(ev.calls) :
                ev.calls[i].c = middleware[ev.key][t].observerFunctionMap[1]

\* The compressor, first in the active set, has thrown and the useHook observers
\* were called all the same.
C13_Witness ==
  /\ ev.op = "notify"
  /\ "NewSubscriberMiddleware" \in faulty
  /\ subscriber[ev.key].activeSubscriberMiddleware =
       <<"NewSubscriberMiddleware", "HookMiddleware">>
  /\ Len(ev.calls) = 2

\* C14 (Spec).  No delivery after detach: every observer function a step calls
\* belongs to a mounted component that is registered as an observer of the key,
\* and a component that is not mounted shows no delivered state.
C14_NoDeliveryAfterDetach ==
  /\ \A i \in 1..Len(ev.calls) :
       /\ component[ev.calls[i].c].phase = "mounted"
       /\ ev.calls[i].c \in Observers(ev.key)
  /\ \A c \in Components : component[c].phase # "mounted" => component[c].state = NullCache

\* A notification was delivered to the compressed hook's observer after the last
\* useHook observer had detached (cacheEpired of HookMiddleware is set by unsubscribe).
C14_Witness ==
  /\ ev.op = "notify"
  /\ ev.calls # <<>>
  /\ "HookMiddleware" \in subscriber[ev.key].subscriberMiddlewares
  /\ middleware[ev.key]["HookMiddleware"].cacheEpired
  /\ middleware[ev.key]["HookMiddleware"].observerFunctionMap = <<>>

\* C15 (Spec).  registerMiddleware is idempotent: a render that registers a class
\* the key's Subscriber has already leaves the Subscriber and its middlewares,
\* with their caches, cacheEpired flags and observer maps, as they are and runs
\* no transform.
C15_RegisterIdempotent ==
  [][(/\ ev'.op = "render"
      /\ subscriberPool[ev'.key]
      /\ component'[ev'.c].NotifierClass \in subscriber[ev'.key].subscriberMiddlewares)
     => /\ subscriber' = subscriber
        /\ middleware' = middleware
        /\ ev'.runs = <<>>]_vars

\* A component has rendered with a class whose middleware holds data and an observer.
C15_Witness ==
  /\ ev.op = "render"
  /\ ev.runs = <<>>
  /\ middleware[ev.key][component[ev.c].NotifierClass].observerFunctionMap # <<>>
  /\ middleware[ev.key][component[ev.c].NotifierClass].currentDataCache # NullCache

\* The observer calls of one fan-out of value v: the middlewares of active in
\* order, and for each its observers in the order of its map.
RECURSIVE CallsInOrder(_, _, _)
CallsInOrder(mws, active, v) ==
  IF active = <<>> THEN <<>>
  ELSE LET obs == mws[Head(active)].observerFunctionMap
       IN  [i \in 1..Len(obs) |-> [c |-> obs[i], v |-> Compressor(Head(active), v)[1]]]
           \o CallsInOrder(mws, Tail(active), v)

\* s2 is s, or s with a new element at its end, or s without one of its elements.
EntryOrderKept(s, s2) ==
  \/ s2 = s
  \/ \E x \in (Components \cup Middlewares) \ Range(s) : s2 = Append(s, x)
  \/ \E x \in Range(s) : s2 = Remove(s, x)

\* C16 (SpecRefcount).  Delivery order: the active set and the observer maps keep
\* the order of entry (an entry goes to the end, a removal keeps the order of the
\* others), and a fan-out runs the active middlewares in the order of the active
\* set and calls the observers of each in the order of its map.
C16_DeliveryOrder ==
  [][/\ \A k \in Keys :
          /\ EntryOrderKept(subscriber[k].activeSubscriberMiddleware,
                            subscriber'[k].activeSubscriberMiddleware)
          /\ \A t \in Middlewares :
               EntryOrderKept(middleware[k][t].observerFunctionMap,
                              middleware'[k][t].observerFunctionMap)
     /\ ev'.notified # <<>> =>
          LET active == subscriber'[ev'.key].activeSubscriberMiddleware
          IN  /\ ev'.runs = [i \in 1..Len(active) |->
                               [t |-> active[i], v |-> ev'.notified[1]]]
              /\ ev'.calls = CallsInOrder(middleware'[ev'.key], active,
                                          ev'.notified[1])]_vars

\* A fan-out over the compressed hook, which entered first, and the useHook
\* observers c2 and c1, in their order of entry.
C16_Witness ==
  /\ ev.op = "notify"
  /\ subscriber[ev.key].activeSubscriberMiddleware =
       <<"NewSubscriberMiddleware", "HookMiddleware">>
  /\ middleware[ev.key]["HookMiddleware"].observerFunctionMap = <<"c2", "c1">>
  /\ Len(ev.calls) = 3

\* C17 (Spec).  The fetch function is invoked only by an attach that makes the
\* active set hold exactly one middleware, and never while an earlier invocation
\* has not completed: as long as no timer was ever set, every fetch in flight was
\* invoked by an attach, so an attach that invokes it leaves one fetch in flight.
C17_OneStartInFlight ==
  /\ ev.fetch => /\ ev.op = "mount"
                 /\ Len(subscriber[ev.key].activeSubscriberMiddleware) = 1
  /\ (ev.fetch /\ ~timeoutPid) => inflight[ev.key] = 1

\* C18 (Spec).  Active-set invariant: a middleware is in the active set of its
\* Subscriber, once, if and only if its observer map is not empty, and every
\* active middleware is registered.
C18_ActiveSet ==
  \A k \in Keys :
    LET active == subscriber[k].activeSubscriberMiddleware
    IN  /\ Len(active) = Cardinality(Range(active))
        /\ Range(active) \subseteq subscriber[k].subscriberMiddlewares
        /\ \A t \in Middlewares :
             t \in Range(active) <=> middleware[k][t].observerFunctionMap # <<>>

\* The last useHook observer has detached while the compressed hook stays active.
C18_Witness ==
  /\ ev.op = "unmount"
  /\ ev.had
  /\ subscriber[ev.key].activeSubscriberMiddleware = <<"NewSubscriberMiddleware">>
  /\ "HookMiddleware" \in subscriber[ev.key].subscriberMiddlewares
  /\ middleware[ev.key]["HookMiddleware"].observerFunctionMap = <<>>

\* C19 (Spec).  The raw cache of a Subscriber is the last (data, errorData) given
\* to its notifyObservers, until the cache expires.
C19_RawCache ==
  \A k \in Keys : subscriber[k].currentDataCache = lastNotified[k]

\* C20 (Spec).  Join of a live key: the attach that gives a middleware its first
\* observer while another middleware is active invokes no fetch, and runs the
\* joining middleware's transform once on the raw cache if its cacheEpired was
\* set, and not at all if it was not.
C20_JoinLiveKey ==
  [][LET k == ev'.key
         t == component'[ev'.c].NotifierClass
     IN  (/\ ev'.op = "mount"
          /\ middleware'[k][t].observerFunctionMap = <<ev'.c>>
          /\ Len(subscriber'[k].activeSubscriberMiddleware) = 2)
         => /\ ~ev'.fetch
            /\ ev'.runs = IF middleware[k][t].cacheEpired
                          THEN <<[t |-> t, v |-> subscriber[k].currentDataCache]>>
                          ELSE <<>>]_vars

\* A middleware has joined a live key and its transform was run on the raw cache.
C20_Witness ==
  /\ ev.op = "mount"
  /\ Len(subscriber[ev.key].activeSubscriberMiddleware) = 2
  /\ middleware[ev.key][component[ev.c].NotifierClass].observerFunctionMap = <<ev.c>>
  /\ ev.runs # <<>>

\* C21 (Spec).  Subscriber.notifyObservers(d, e) leaves cacheEpired of the
\* Subscriber false and runs the transform of each active middleware once with
\* (d, e), and no other transform; a registered middleware that is not active
\* keeps its fields, its compressed cache among them.
C21_NotifyActiveOnly ==
  [][ev'.notified # <<>> =>
       LET k == ev'.key
           active == subscriber[k].activeSubscriberMiddleware
       IN  /\ ~subscriber'[k].cacheEpired
           /\ Len(ev'.runs) = Len(active)
           /\ \A t \in Range(active) :
                \E i \in 1..Len(ev'.runs) : ev'.runs[i] = [t |-> t, v |-> ev'.notified[1]]
           /\ \A t \in Middlewares \ Range(active) :
                middleware'[k][t] = middleware[k][t]]_vars

\* useHook observers were notified while the compressed hook, registered and
\* without observers, holds an earlier value.
C21_Witness ==
  /\ ev.op = "notify"
  /\ subscriber[ev.key].activeSubscriberMiddleware = <<"HookMiddleware">>
  /\ "NewSubscriberMiddleware" \in subscriber[ev.key].subscriberMiddlewares
  /\ middleware[ev.key]["NewSubscriberMiddleware"].currentDataCache # NullCache
  /\ Len(ev.runs) = 1

\* C22 (SpecGeneric).  Failed initial fetch: when the fetchData invoked by an
\* attach rejects, the error is caught, and the Subscriber with its active set
\* and raw cache, the middlewares with their observers and compressed caches,
\* and the components stay as they are.
C22_FailedFetch ==
  [][ev'.op = "fetchReject" =>
       /\ ~ev'.raised
       /\ subscriber' = subscriber
       /\ middleware' = middleware
       /\ component' = component
       /\ ev'.calls = <<>>]_vars

\* The fetch of the first attach has rejected: the observer is registered, its
\* middleware active, and every cache is (null, null).
C22_Witness ==
  /\ ev.op = "fetchReject"
  /\ inflight[ev.key] = 0
  /\ Len(subscriber[ev.key].activeSubscriberMiddleware) = 1
  /\ Cardinality(Observers(ev.key)) = 1
  /\ subscriber[ev.key].currentDataCache = NullCache
  /\ \A t \in Middlewares : middleware[ev.key][t].currentDataCache = NullCache

\* C23 (SpecGeneric).  Failed stop: a detach that invokes stopFetching leaves the
\* active set empty; when stopFetching rejects, the error is caught and nothing
\* else changes; and an attach to a key whose active set is empty invokes
\* fetchData, also after a stop that failed.
C23_FailedStop ==
  [][/\ ev'.stop => subscriber'[ev'.key].activeSubscriberMiddleware = <<>>
     /\ ev'.op = "stopFail" =>
          /\ ~ev'.raised
          /\ subscriber' = subscriber
          /\ middleware' = middleware
          /\ expiryTimers' = expiryTimers
     /\ (/\ ev'.op = "mount"
         /\ subscriber[ev'.key].activeSubscriberMiddleware = <<>>
         /\ subscriber'[ev'.key].activeSubscriberMiddleware # <<>>)
        => ev'.fetch]_vars

\* The stop of the last detach has rejected and the active set is empty.
C23_Witness ==
  /\ ev.op = "stopFail"
  /\ ~ev.raised
  /\ subscriber[ev.key].activeSubscriberMiddleware = <<>>
  /\ Observers(ev.key) = {}

\* C24 (SpecRetention).  Immediate expiry: with a retention time configured, the
\* step in which stopFetching has returned resets the raw cache and the
\* compressed cache of every registered middleware, and sets no expiry timer.
C24_ImmediateExpiry ==
  (ev.op = "stopDone" /\ options.delayStopFetching # -1) =>
    /\ ev.cleared
    /\ subscriber[ev.key].currentDataCache = NullCache
    /\ \A t \in subscriber[ev.key].subscriberMiddlewares :
         middleware[ev.key][t].currentDataCache = NullCache
    /\ expiryTimers[ev.key] = 0

\* The caches of a key with both middlewares registered were reset by the stop.
C24_Witness ==
  /\ ev.op = "stopDone"
  /\ options.delayStopFetching # -1
  /\ ev.cleared
  /\ subscriber[ev.key].subscriberMiddlewares = Middlewares

\* C25 (Spec).  Guarded deferred expiry: without a retention time, the step in
\* which stopFetching has returned sets cacheEpired and one expiry timer and
\* resets no cache; the timer, when it fires, resets the raw and the compressed
\* caches if cacheEpired is still set and changes nothing if a notification
\* has cleared it.
C25_GuardedExpiry ==
  [][/\ (ev'.op = "stopDone" /\ options.delayStopFetching = -1) =>
          /\ subscriber'[ev'.key].cacheEpired
          /\ expiryTimers'[ev'.key] = expiryTimers[ev'.key] + 1
          /\ ~ev'.cleared
          /\ middleware' = middleware
     /\ ev'.op = "expiryFire" =>
          IF subscriber[ev'.key].cacheEpired
          THEN /\ ev'.cleared
               /\ subscriber'[ev'.key].currentDataCache = NullCache
               /\ \A t \in subscriber[ev'.key].subscriberMiddlewares :
                    middleware'[ev'.key][t].currentDataCache = NullCache
          ELSE /\ ~ev'.cleared
               /\ subscriber' = subscriber
               /\ middleware' = middleware]_vars

\* The expiry timer has fired after a notification that came after the last
\* detach, and has left the compressed cache as it was.
C25_Witness ==
  /\ ev.op = "expiryFire"
  /\ ~ev.cleared
  /\ Observers(ev.key) = {}
  /\ \E t \in Middlewares : middleware[ev.key][t].currentDataCache # NullCache

\* C26 (Spec).  Re-attach cancels a pending expiry: without a retention time, an
\* attach to a key whose expiry timer is pending clears cacheEpired of the
\* Subscriber, and an expiry timer that fires while the key has an observer
\* again changes neither the raw cache nor a compressed cache.
C26_ReattachKeepsCache ==
  [][/\ (/\ ev'.op = "mount"
         /\ ev'.c \in Range(middleware'[ev'.key][component'[ev'.c].NotifierClass]
                                .observerFunctionMap)
         /\ expiryTimers[ev'.key] > 0)
        => ~subscriber'[ev'.key].cacheEpired
     /\ (/\ ev'.op = "expiryFire"
         /\ \E t \in Middlewares : middleware[ev'.key][t].observerFunctionMap # <<>>)
        => /\ subscriber'[ev'.key].currentDataCache = subscriber[ev'.key].currentDataCache
           /\ \A t \in Middlewares :
                middleware'[ev'.key][t].currentDataCache =
                  middleware[ev'.key][t].currentDataCache]_vars

\* C27 (SpecKeys).  Per-key periodic state: a detach on one key leaves the pending
\* timers of the other key pending, and no step on one key (detach, fetch that
\* returns or fails) changes the retry counter that a polled other key reads.
C27_PerKeyState ==
  [][\A k \in Keys \ {ev'.key} :
       /\ ev'.op = "unmount" =>
            /\ timers.pid = k => timers'.pid = k
            /\ timers'.other[k] = timers.other[k]
       /\ (ev'.op \in {"unmount", "fetchOk", "fetchFail"} /\ KeyLoops(k) > 0) =>
            retryCount' = retryCount]_vars

\* C28 (SpecPeriodic).  Stop keeps the retry counter: a detach, the stop it
\* invokes and an attach leave the retry counter unchanged, and an attach that
\* restarts the polling invokes fetchData in the attach itself, setting no timer.
C28_StopKeepsRetryCount ==
  [][/\ ev'.op \in {"unmount", "stopDone", "mount", "render"} => retryCount' = retryCount
     /\ (ev'.op = "mount" /\ ev'.fetch) =>
          /\ inflight'[ev'.key] = inflight[ev'.key] + 1
          /\ ev'.sched = <<>>
          /\ timers' = timers]_vars

\* An attach has restarted the polling with the retry counter of earlier failures.
C28_Witness ==
  /\ ev.op = "mount"
  /\ ev.fetch
  /\ retryCount > 0
  /\ KeyLoops(ev.key) = 1

\* C29 (SpecPeriodic).  Retry delay fallbacks: a failure that is retried, the
\* maximum not being reached, schedules the next fetch after errorInterval when
\* that option is a number, and after the base interval when it is an empty
\* array or is not set.
C29_DelayFallbacks ==
  (/\ ev.op = "fetchFail"
   /\ options.shouldRetryOnError
   /\ ~(options.maximumRetryCount # -1 /\ retryCount >= options.maximumRetryCount)
   /\ options.errorInterval.arr = <<>>)
  => ev.sched = <<IF options.errorInterval.kind = "number"
                  THEN options.errorInterval.num
                  ELSE options.interval>>

\* A failure was rescheduled after the errorInterval given as a number.
C29_Witness ==
  /\ ev.op = "fetchFail"
  /\ options.errorInterval.kind = "number"
  /\ ev.sched = <<options.errorInterval.num>>
  /\ options.errorInterval.num # options.interval

\* C30 (Spec).  Construction replay is silent: a step that constructs a
\* middleware runs its transform once on the raw cache, at most sets that
\* middleware's compressed cache and cacheEpired, and calls no observer; a render
\* that constructs one leaves the active set as it is and invokes no fetch.
C30_SilentConstruction ==
  [][LET k == ev'.key
         t == component'[ev'.c].NotifierClass
     IN  (/\ ev'.op \in {"render", "mount"}
          /\ t \notin subscriber[k].subscriberMiddlewares
          /\ t \in subscriber'[k].subscriberMiddlewares)
         => /\ ev'.runs = <<[t |-> t, v |-> subscriber[k].currentDataCache]>>
            /\ ev'.calls = <<>>
            /\ middleware'[k][t].observerFunctionMap \in {<<>>, <<ev'.c>>}
            /\ \A u \in Middlewares \ {t} : middleware'[k][u] = middleware[k][u]
            /\ ev'.op = "render" =>
                 /\ ~ev'.fetch
                 /\ subscriber'[k].activeSubscriberMiddleware =
                      subscriber[k].activeSubscriberMiddleware
                 /\ middleware'[k][t].observerFunctionMap = <<>>
                 /\ component' = [component EXCEPT ![ev'.c] = component'[ev'.c]]]_vars

\* A render has constructed a middleware on a key that has an observer already.
C30_Witness ==
  /\ ev.op = "render"
  /\ ev.runs # <<>>
  /\ Observers(ev.key) # {}

\* C31 (Spec), as stated.  Single writer of the compressed cache: the compressed
\* cache of a middleware changes only in a step in which that middleware's own
\* transform ran and notified; subscribe, unsubscribe, registration and cache
\* expiry leave it as it was.
C31_SingleWriter ==
  [][\A k \in Keys, t \in Middlewares :
       middleware'[k][t].currentDataCache # middleware[k][t].currentDataCache =>
         /\ ev'.key = k
         /\ \E i \in 1..Len(ev'.runs) :
              /\ ev'.runs[i].t = t
              /\ Compressor(t, ev'.runs[i].v) # <<>>
              /\ middleware'[k][t].currentDataCache = Compressor(t, ev'.runs[i].v)[1]]_vars

\* C31 (Spec), amended.  The compressed cache of a middleware changes only in a
\* step in which that middleware's own transform ran and notified, or in a step
\* in which the Subscriber's expireCache reset it to (null, null).
C31_SingleWriterOrExpiry ==
  [][\A k \in Keys, t \in Middlewares :
       middleware'[k][t].currentDataCache # middleware[k][t].currentDataCache =>
         /\ ev'.key = k
         /\ \/ \E i \in 1..Len(ev'.runs) :
                 /\ ev'.runs[i].t = t
                 /\ Compressor(t, ev'.runs[i].v) # <<>>
                 /\ middleware'[k][t].currentDataCache = Compressor(t, ev'.runs[i].v)[1]
            \/ /\ ev'.cleared
               /\ ev'.runs = <<>>
               /\ t \in subscriber[k].subscriberMiddlewares
               /\ middleware'[k][t].currentDataCache = NullCache]_vars

\* The expiry timer has fired and reset the caches of two registered middlewares.
C31_Witness ==
  /\ ev.op = "expiryFire"
  /\ ev.cleared
  /\ Cardinality(subscriber[ev.key].subscriberMiddlewares) = 2
  /\ \A t \in Middlewares : middleware[ev.key][t].currentDataCache = NullCache

\* C32 (SpecApi).  Attach is idempotent per component id: a subscribe for an id
\* that is in the observer map already leaves the ids of the map and the active
\* set as they were, invokes no fetchData and replays nothing, also when that
\* component is the only observer of the key.
C32_AttachIdempotent ==
  [][ev'.op = "resubscribe" =>
       /\ ~ev'.fetch
       /\ ev'.runs = <<>>
       /\ ev'.calls = <<>>
       /\ \A t \in Middlewares :
            middleware'[ev'.key][t].observerFunctionMap =
              middleware[ev'.key][t].observerFunctionMap
       /\ subscriber'[ev'.key].activeSubscriberMiddleware =
            subscriber[ev'.key].activeSubscriberMiddleware]_vars

\* C33 (SpecApi).  No spurious stop: an unsubscribe for an id that is not in the
\* observer map of the middleware leaves the observer maps, the active set and
\* the cacheEpired flags as they were and invokes no stopFetching, also when
\* the key has no observer at all.
C33_NoSpuriousStop ==
  [][ev'.op = "strayUnsubscribe" =>
       /\ ~ev'.stop
       /\ \A t \in Middlewares :
            /\ middleware'[ev'.key][t].observerFunctionMap =
                 middleware[ev'.key][t].observerFunctionMap
            /\ middleware'[ev'.key][t].cacheEpired = middleware[ev'.key][t].cacheEpired
       /\ subscriber'[ev'.key].activeSubscriberMiddleware =
            subscriber[ev'.key].activeSubscriberMiddleware
       /\ subscriber'[ev'.key].cacheEpired = subscriber[ev'.key].cacheEpired]_vars

\* C34 (SpecRetention).  No expiry under live observers: no step resets the raw
\* cache and the compressed caches of a key whose active set is not empty, and
\* no cache of such a key goes from a value to (null, null), also when the stop
\* of the last detach was still pending while a new component attached.
C34_NoExpiryUnderObservers ==
  [][\A k \in Keys :
       subscriber[k].activeSubscriberMiddleware # <<>> =>
         /\ ~(ev'.cleared /\ ev'.key = k)
         /\ subscriber[k].currentDataCache # NullCache =>
              subscriber'[k].currentDataCache # NullCache
         /\ \A t \in Middlewares :
              middleware[k][t].currentDataCache # NullCache =>
                middleware'[k][t].currentDataCache # NullCache]_vars

\* C35 (Spec).  Every mounted component is subscribed: a component whose effect
\* has run is in the observer map of the middleware of its class on its key.
C35_MountedIsSubscribed ==
  \A c \in Components :
    component[c].phase = "mounted" =>
      c \in Range(middleware[component[c].parameter][component[c].NotifierClass].observerFunctionMap)

\* C36 (SpecGeneric).  Fetch and stop alternate per key: fetchData is invoked in
\* exactly the steps that take the active set of the key from empty to non-empty
\* and stopFetching in exactly the steps that take it from non-empty to empty,
\* so starting from the empty set the invocations alternate, fetchData first.
C36_FetchStopAlternate ==
  [][\A k \in Keys :
       LET before == subscriber[k].activeSubscriberMiddleware # <<>>
           after == subscriber'[k].activeSubscriberMiddleware # <<>>
       IN  /\ (ev'.fetch /\ ev'.key = k) <=> (~before /\ after)
           /\ (ev'.stop /\ ev'.key = k) <=> (before /\ ~after)]_vars

\* An attach has invoked fetchData after an earlier stop of the key had returned.
C36_Witness ==
  /\ ev.op = "mount"
  /\ ev.fetch
  /\ subscriber[ev.key].cacheEpired
  /\ subscriber[ev.key].activeSubscriberMiddleware # <<>>

\* C37 (SpecExhaust).  Attempt count under exhaustion: with retry on error and
\* a maximum retry count N, components that stay attached and every fetch
\* failing from counter zero, the failed fetches plus the loop still running
\* never exceed N, and the loop has ended exactly when N fetches have failed.
C37_AttemptCount ==
  \A k \in Keys :
    (/\ options.shouldRetryOnError
     /\ options.maximumRetryCount # -1
     /\ subscriber[k].activeSubscriberMiddleware # <<>>)
    => /\ streak[k] + KeyLoops(k) <= options.maximumRetryCount
       /\ KeyLoops(k) = 0 <=> streak[k] = options.maximumRetryCount
       /\ retryCount = streak[k]

\* The second of two fetches has failed under a maximum of two and no loop is left.
C37_Witness ==
  /\ ev.op = "fetchFail"
  /\ options.maximumRetryCount = 2
  /\ streak[ev.key] = 2
  /\ KeyLoops(ev.key) = 0
  /\ Observers(ev.key) # {}

\* C38 (SpecPeriodic).  Bounded retry counter: with a maximum retry count the
\* retry counter never exceeds it, across failures, stops and restarts.
C38_BoundedRetryCount ==
  (options.shouldRetryOnError /\ options.maximumRetryCount # -1)
  => retryCount <= options.maximumRetryCount

\* C39 (SpecGeneric).  State unchanged on failed stop: the step in which
\* stopFetching rejects leaves the raw cache, the Subscriber's cacheEpired flag
\* and every compressed cache of the key as they were, resets no cache and sets
\* no expiry timer.
C39_FailedStopKeepsState ==
  [][ev'.op = "stopFail" =>
       /\ subscriber'[ev'.key].currentDataCache = subscriber[ev'.key].currentDataCache
       /\ subscriber'[ev'.key].cacheEpired = subscriber[ev'.key].cacheEpired
       /\ \A t \in Middlewares :
            middleware'[ev'.key][t].currentDataCache =
              middleware[ev'.key][t].currentDataCache
       /\ ~ev'.cleared
       /\ expiryTimers'[ev'.key] = expiryTimers[ev'.key]]_vars

\* A stop has rejected while a compressed cache of the key held data; the
\* Subscriber's flag is still clear and no expiry timer is pending.
C39_Witness ==
  /\ ev.op = "stopFail"
  /\ \E t \in Middlewares : middleware[ev.key][t].currentDataCache # NullCache
  /\ ~subscriber[ev.key].cacheEpired
  /\ expiryTimers[ev.key] = 0

\* C40 (Spec).  Caches eventually released: a key without observers, whose stop
\* has returned and whose expiry timer has fired, holds (null, null) in its raw
\* cache and in every compressed cache; nothing but that stop and that timer
\* resets the caches of a key to which no component attaches again.
C40_CachesReleased ==
  \A k \in Keys :
    (/\ Observers(k) = {}
     /\ subscriber[k].activeSubscriberMiddleware = <<>>
     /\ stopPending[k] = 0
     /\ expiryTimers[k] = 0)
    => /\ subscriber[k].currentDataCache = NullCache
       /\ \A t \in Middlewares : middleware[k][t].currentDataCache = NullCache

====
